---- MODULE Spec2Model ----
(***************************************************************************)
(* pymapd/_pandas_loaders.py: type resolution of pandas columns            *)
(* (get_mapd_dtype), columnar encoding (build_input_columnar) and schema   *)
(* description (build_row_desc).                                           *)
(*                                                                         *)
(* A cell of a column is a record [k, v]: k is the Python kind of the      *)
(* value ("na" for a missing-value marker None/NaN/NaT), v an integer that *)
(* identifies the value within its kind.  A Series is [dtype, vals]; a     *)
(* dtype is [kind, itemsize] with numpy's kind letters.                    *)
(***************************************************************************)
EXTENDS Integers, Sequences, FiniteSets, TLC

VARIABLES
    \* --- get_mapd_dtype called on a column (and on a second one) ---
    dataA, dataB,       \* the Series handed to get_mapd_dtype
    resA, resB,         \* what the call returned or raised
    rpc,                \* "call" before the call, "ret" after it
    \* --- build_input_columnar / build_row_desc ---
    is_df,              \* isinstance(data, pd.DataFrame)
    ncols,              \* number of columns of the caller's table
    preserve_index,     \* argument
    op,                 \* which function is running: "none", "encode", "describe"
    pc,                 \* position in the running function
    df,                 \* columns of the (index-materialized) table read so far
    data,               \* local: the current column (a Series)
    mapd_type,          \* local
    has_nulls,          \* local
    nulls,              \* local: survives from one iteration to the next
    all_nulls,          \* local: [is_none, val]
    input_cols,         \* local: the TColumns appended so far
    dtypes,             \* build_row_desc: (col, mapd_type) pairs so far
    row_desc,           \* build_row_desc: result
    err,                \* the exception that ended the call, "" if none
    trace               \* the pandas operations applied to the current column

vars == <<dataA, dataB, resA, resB, rpc, is_df, ncols, preserve_index, op, pc,
          df, data, mapd_type, has_nulls, nulls, all_nulls, input_cols,
          dtypes, row_desc, err, trace>>

----------------------------------------------------------------------------
\* Bounds

NumRows == 2        \* rows of every table
MaxCols == 2        \* columns of the caller's table (the index not counted)
MaxLen == 3         \* length of a column handed to get_mapd_dtype alone
MaxPairLen == 2     \* length of the columns of a compared pair

----------------------------------------------------------------------------
\* Values, dtypes, Series

NA == [k |-> "na", v |-> 0]
IsNA(c) == c.k = "na"
Cell(kind, val) == [k |-> kind, v |-> val]

DT(kind, size) == [kind |-> kind, itemsize |-> size]
ObjectDType == DT("O", 8)

Series(dtype, vals) == [dtype |-> dtype, vals |-> vals]

SeqsUpTo(S, n) == UNION {[1..m -> S] : m \in 0..n}

\* pandas.api.types predicates on a dtype
is_bool_dtype(dtype) == dtype.kind = "b"
is_integer_dtype(dtype) == dtype.kind \in {"i", "u"}
is_float_dtype(dtype) == dtype.kind = "f"
is_object_dtype(dtype) == dtype.kind = "O"
is_datetime64_any_dtype(dtype) == dtype.kind = "M"

\* Python's isinstance on the kind of a value.  datetime.datetime is a
\* subclass of datetime.date, and bool is a subclass of int.
IsInstance(c, cls) ==
    CASE cls = "string_types" -> c.k = "str"
      [] cls = "date" -> c.k \in {"date", "datetime"}
      [] cls = "time" -> c.k = "time"
      [] cls = "int" -> c.k \in {"int", "bool"}

\* Series.dropna()
dropna(vals) == SelectSeq(vals, LAMBDA c : ~IsNA(c))

----------------------------------------------------------------------------
\* Results of a call: a returned value or a raised exception

Ret(val) == [ok |-> TRUE, val |-> val]
Raise(exc) == [ok |-> FALSE, val |-> exc]

IndexErrorNoValid == "IndexError: Not any valid values to infer the type"
TypeErrorUnhandled == "TypeError: Unhandled type"
TypeErrorCreate == "TypeError: Create table is not supported for type"
ImportErrorPandas == "ImportError: create_table requires pandas."

----------------------------------------------------------------------------
\* The type resolver

get_mapd_type_from_known_lt(dtype) ==
    IF is_bool_dtype(dtype) THEN Ret("BOOL")
    ELSE IF is_integer_dtype(dtype) THEN
        IF dtype.itemsize <= 1 THEN Ret("TINYINT")
        ELSE IF dtype.itemsize = 2 THEN Ret("SMALLINT")
        ELSE IF dtype.itemsize = 4 THEN Ret("INT")
        ELSE Ret("BIGINT")
    ELSE IF is_float_dtype(dtype) THEN
        IF dtype.itemsize < 4 THEN Ret("FLOAT") ELSE Ret("DOUBLE")
    ELSE IF is_datetime64_any_dtype(dtype) THEN Ret("TIMESTAMP")
    ELSE Raise(TypeErrorUnhandled)

get_mapd_type_from_known(dtype) ==
    IF is_bool_dtype(dtype) THEN Ret("BOOL")
    ELSE IF is_integer_dtype(dtype) THEN
        IF dtype.itemsize <= 1 THEN Ret("TINYINT")
        ELSE IF dtype.itemsize = 2 THEN Ret("SMALLINT")
        ELSE IF dtype.itemsize = 4 THEN Ret("INT")
        ELSE Ret("BIGINT")
    ELSE IF is_float_dtype(dtype) THEN
        IF dtype.itemsize <= 4 THEN Ret("FLOAT") ELSE Ret("DOUBLE")
    ELSE IF is_datetime64_any_dtype(dtype) THEN Ret("TIMESTAMP")
    ELSE Raise(TypeErrorUnhandled)

\* the kind test of lines 59-68, on the sampled value
TypeOfSample(val) ==
    IF IsInstance(val, "string_types") THEN Ret("STR")
    ELSE IF IsInstance(val, "date") THEN Ret("DATE")
    ELSE IF IsInstance(val, "time") THEN Ret("TIME")
    ELSE IF IsInstance(val, "int") THEN Ret("INT")
    ELSE Raise(TypeErrorUnhandled)

\* mutants: sample data.iloc[0] without dropna / swallow the empty case
get_mapd_type_from_object_nodrop(d) ==
    IF d.vals = <<>> THEN Raise(IndexErrorNoValid)
    ELSE TypeOfSample(d.vals[1])

get_mapd_type_from_object_typeerr(d) ==
    LET valid == dropna(d.vals) IN
    IF valid = <<>> THEN Raise(TypeErrorUnhandled)
    ELSE TypeOfSample(valid[1])

get_mapd_type_from_object(d) ==
    LET valid == dropna(d.vals) IN
    IF valid = <<>> THEN Raise(IndexErrorNoValid)
    ELSE TypeOfSample(valid[1])

get_mapd_dtype(d) ==
    IF is_object_dtype(d.dtype) THEN get_mapd_type_from_object(d)
    ELSE get_mapd_type_from_known(d.dtype)

----------------------------------------------------------------------------
\* Lookup tables and conversions of pymapd/_utils.py

TimeLike == {"TIME", "TIMESTAMP", "DATE"}
NoCoerce == {"FLOAT", "DOUBLE", "VARCHAR", "STR"}

\* The minimum of a signed integer of `itemsize` bytes.  TLC's integers have
\* 32 bits, so a byte is given 3 bits here: the minima of the four widths
\* stay distinct and ordered, which is all the encoder depends on.
IntMin(itemsize) == -(2 ^ (3 * itemsize - 1))

\* mapd_to_na: the null sentinel of a wire type.  Float and string values
\* are numbered within their kind; number 0 is the reserved one.
mapd_to_na(t) ==
    CASE t \in {"BOOL", "TINYINT"} -> Cell("int", IntMin(1))
      [] t = "SMALLINT" -> Cell("int", IntMin(2))
      [] t = "INT" -> Cell("int", IntMin(4))
      [] t \in {"BIGINT", "TIME", "TIMESTAMP", "DATE"} -> Cell("int", IntMin(8))
      [] t \in {"FLOAT", "DOUBLE"} -> Cell("float", 0)
      [] t = "STR" -> Cell("str", 0)

\* mapd_to_slot: the TColumnData field a wire type is stored in
mapd_to_slot(t) ==
    CASE t \in {"FLOAT", "DOUBLE"} -> "real_col"
      [] t = "STR" -> "str_col"
      [] OTHER -> "int_col"

\* The dtype pandas gives a Series of integers: int64, or float64 when a
\* missing value is among them.
IntResultDType(vals) ==
    IF \E i \in 1..Len(vals) : IsNA(vals[i]) THEN DT("f", 8) ELSE DT("i", 8)

\* datetime_to_seconds: a datetime64 value is numbered in milliseconds
datetime_to_seconds(d) ==
    LET out == [i \in 1..Len(d.vals) |->
                  IF IsNA(d.vals[i]) THEN NA
                  ELSE Cell("int", d.vals[i].v \div 1000)]
    IN Series(IntResultDType(out), out)

\* date_to_seconds: a date is numbered in days since the epoch
date_to_seconds(d) ==
    LET out == [i \in 1..Len(d.vals) |->
                  IF IsNA(d.vals[i]) THEN NA
                  ELSE Cell("int", d.vals[i].v * 86400)]
    IN Series(IntResultDType(out), out)

\* time_to_seconds: a time of day is numbered in minutes since midnight
time_to_seconds(x) == IF IsNA(x) THEN NA ELSE Cell("int", x.v * 60)

----------------------------------------------------------------------------
\* pandas operations on a Series

hasnans(vals) == \E i \in 1..Len(vals) : IsNA(vals[i])

isnull_dropped(vals) == [i \in 1..Len(dropna(vals)) |-> FALSE]

isnull(vals) == [i \in 1..Len(vals) |-> IsNA(vals[i])]

fillna(d, sentinel) ==
    Series(d.dtype,
           [i \in 1..Len(d.vals) |->
              IF IsNA(d.vals[i]) THEN sentinel ELSE d.vals[i]])

astype_int64(d) ==
    Series(DT("i", 8), [i \in 1..Len(d.vals) |-> Cell("int", d.vals[i].v)])

\* DataFrame.reset_index() of a default (positional) index: a leading int64
\* column named "index" holding 0 .. N-1
IndexColumn ==
    [name |-> "index", dtype |-> DT("i", 8),
     vals |-> [i \in 1..NumRows |-> Cell("int", i - 1)]]

ColNames == <<"A", "B", "C", "D", "E", "F">>

----------------------------------------------------------------------------
\* build_input_columnar, one column

thrift_cast(d, t) ==
    CASE t = "TIMESTAMP" -> datetime_to_seconds(d)
      [] t = "TIME" ->
           LET out == [i \in 1..Len(d.vals) |-> time_to_seconds(d.vals[i])]
           IN Series(IntResultDType(out), out)
      [] t = "DATE" -> date_to_seconds(d)

\* lines 93-98.  When the column has no missing value and all_nulls is
\* already set, no branch assigns nulls: it keeps the previous iteration's.
NullsStep(d, an, nl) ==
    LET hn == hasnans(d.vals) IN
    IF hn THEN
        [has_nulls |-> hn, nulls |-> isnull(d.vals), all_nulls |-> an,
         did |-> <<"isnull">>]
    ELSE IF an.is_none THEN
        LET m == [i \in 1..NumRows |-> FALSE] IN
        [has_nulls |-> hn, nulls |-> m,
         all_nulls |-> [is_none |-> FALSE, val |-> m], did |-> <<>>]
    ELSE
        [has_nulls |-> hn, nulls |-> nl, all_nulls |-> an, did |-> <<>>]

\* lines 100-102
CastStep(d, t) ==
    IF t \in TimeLike
    THEN [data |-> thrift_cast(d, t), did |-> <<"thrift_cast">>]
    ELSE [data |-> d, did |-> <<>>]

\* mutant: fillna with a fixed value instead of the wire type's sentinel
FillStep_zero(d, hn, t) ==
    IF hn
    THEN [data |-> fillna(d, Cell(mapd_to_na(t).k, 1)), did |-> <<"fillna">>]
    ELSE [data |-> d, did |-> <<>>]

\* lines 104-105
FillStep(d, hn, t) ==
    IF hn
    THEN [data |-> fillna(d, mapd_to_na(t)), did |-> <<"fillna">>]
    ELSE [data |-> d, did |-> <<>>]

\* mutant: the astype of line 107-108 dedented out of `if has_nulls`
CoerceStep_dedent(d, hn, t) ==
    IF t \notin NoCoerce
    THEN [data |-> astype_int64(d), did |-> <<"astype">>]
    ELSE [data |-> d, did |-> <<>>]

\* lines 107-108, inside `if has_nulls`
CoerceStep(d, hn, t) ==
    IF hn /\ t \notin NoCoerce
    THEN [data |-> astype_int64(d), did |-> <<"astype">>]
    ELSE [data |-> d, did |-> <<>>]

\* lines 110-114: TColumn(data=TColumnData(<slot>=data.values), nulls=nulls)
TColumn(d, t, nl) ==
    [slot |-> mapd_to_slot(t), values |-> d.vals, dtype |-> d.dtype,
     nulls |-> nl]

----------------------------------------------------------------------------
\* The tables the encoder and the describer are run on

SeriesOf(dtype, cells) == {Series(dtype, f) : f \in [1..NumRows -> cells]}

\* Columns of one element kind each.  Integer and complex columns hold no
\* missing value; one object column of integers holds the INT sentinel.
TableSeries ==
    SeriesOf(DT("i", 4), {Cell("int", 1)})
    \cup SeriesOf(DT("f", 8), {Cell("float", 1), NA})
    \cup SeriesOf(DT("M", 8), {Cell("datetime64", 1500), NA})
    \cup SeriesOf(ObjectDType, {Cell("str", 1), NA})
    \cup SeriesOf(ObjectDType, {Cell("date", 1), NA})
    \cup SeriesOf(ObjectDType, {Cell("time", 1), NA})
    \cup SeriesOf(ObjectDType, {Cell("int", IntMin(4)), NA})
    \cup SeriesOf(DT("c", 16), {Cell("complex", 1)})

Named(ser, nm) == [name |-> nm, dtype |-> ser.dtype, vals |-> ser.vals]

\* number of columns of the table after `if preserve_index: reset_index()`
TotalCols == ncols + (IF preserve_index THEN 1 ELSE 0)

None == [is_none |-> TRUE, val |-> <<>>]

InitTable ==
    /\ is_df \in BOOLEAN
    /\ ncols \in 0..MaxCols
    /\ preserve_index \in BOOLEAN
    /\ op = "none"
    /\ pc = "start"
    /\ df = <<>>
    /\ data = Series(ObjectDType, <<>>)
    /\ mapd_type = ""
    /\ has_nulls = FALSE
    /\ nulls = <<>>
    /\ all_nulls = None
    /\ input_cols = <<>>
    /\ dtypes = <<>>
    /\ row_desc = <<>>
    /\ err = ""
    /\ trace = <<>>

ResolverIdle ==
    /\ dataA = Series(ObjectDType, <<>>)
    /\ dataB = Series(ObjectDType, <<>>)
    /\ resA = Raise("")
    /\ resB = Raise("")
    /\ rpc = "idle"

resolverVars == <<dataA, dataB, resA, resB, rpc>>
argVars == <<is_df, ncols, preserve_index>>
descVars == <<dtypes, row_desc>>

Init == InitTable /\ ResolverIdle

\* The next column of the table.  reset_index() put the index first; the
\* caller's columns follow, each read when the loop reaches it.
NextColumns ==
    IF preserve_index /\ Len(df) = 0
    THEN {IndexColumn}
    ELSE {Named(ser, ColNames[Len(df) + 1 - (IF preserve_index THEN 1 ELSE 0)])
            : ser \in TableSeries}

----------------------------------------------------------------------------
\* build_input_columnar(df, preserve_index)

\* lines 83-88
EncStart ==
    /\ pc = "start" /\ is_df
    /\ op' = "encode"
    /\ input_cols' = <<>>
    /\ all_nulls' = None
    /\ pc' = "e_loop"
    /\ UNCHANGED <<resolverVars, argVars, descVars, df, data, mapd_type,
                   has_nulls, nulls, err, trace>>

\* lines 90-91: for col in df.columns: data = df[col]; line 116 at the end
EncLoop ==
    /\ pc = "e_loop"
    /\ IF Len(df) < TotalCols
       THEN \E c \in NextColumns :
               /\ df' = Append(df, c)
               /\ data' = Series(c.dtype, c.vals)
               /\ trace' = <<>>
               /\ pc' = "e_resolve"
       ELSE /\ pc' = "done"
            /\ UNCHANGED <<df, data, trace>>
    /\ UNCHANGED <<resolverVars, argVars, descVars, op, mapd_type, has_nulls,
                   nulls, all_nulls, input_cols, err>>

\* line 92
EncResolve ==
    /\ pc = "e_resolve"
    /\ LET r == get_mapd_dtype(data) IN
       IF r.ok
       THEN /\ mapd_type' = r.val
            /\ trace' = Append(trace, "get_mapd_dtype")
            /\ pc' = "e_nulls"
            /\ err' = err
       ELSE /\ err' = r.val
            /\ pc' = "error"
            /\ UNCHANGED <<mapd_type, trace>>
    /\ UNCHANGED <<resolverVars, argVars, descVars, op, df, data, has_nulls,
                   nulls, all_nulls, input_cols>>

\* lines 93-98
EncNulls ==
    /\ pc = "e_nulls"
    /\ LET r == NullsStep(data, all_nulls, nulls) IN
       /\ has_nulls' = r.has_nulls
       /\ nulls' = r.nulls
       /\ all_nulls' = r.all_nulls
       /\ trace' = trace \o r.did
    /\ pc' = "e_cast"
    /\ UNCHANGED <<resolverVars, argVars, descVars, op, df, data, mapd_type,
                   input_cols, err>>

\* lines 100-102
EncCast ==
    /\ pc = "e_cast"
    /\ LET r == CastStep(data, mapd_type) IN
       /\ data' = r.data
       /\ trace' = trace \o r.did
    /\ pc' = "e_fill"
    /\ UNCHANGED <<resolverVars, argVars, descVars, op, df, mapd_type,
                   has_nulls, nulls, all_nulls, input_cols, err>>

\* lines 104-105
EncFill ==
    /\ pc = "e_fill"
    /\ LET r == FillStep(data, has_nulls, mapd_type) IN
       /\ data' = r.data
       /\ trace' = trace \o r.did
    /\ pc' = "e_coerce"
    /\ UNCHANGED <<resolverVars, argVars, descVars, op, df, mapd_type,
                   has_nulls, nulls, all_nulls, input_cols, err>>

\* lines 107-108
EncCoerce ==
    /\ pc = "e_coerce"
    /\ LET r == CoerceStep(data, has_nulls, mapd_type) IN
       /\ data' = r.data
       /\ trace' = trace \o r.did
    /\ pc' = "e_append"
    /\ UNCHANGED <<resolverVars, argVars, descVars, op, df, mapd_type,
                   has_nulls, nulls, all_nulls, input_cols, err>>

\* lines 110-114
EncAppend ==
    /\ pc = "e_append"
    /\ input_cols' = Append(input_cols, TColumn(data, mapd_type, nulls))
    /\ pc' = "e_loop"
    /\ UNCHANGED <<resolverVars, argVars, descVars, op, df, data, mapd_type,
                   has_nulls, nulls, all_nulls, err, trace>>

----------------------------------------------------------------------------
\* build_row_desc(data, preserve_index)

\* mutant: the isinstance test left out
DescCheck_nocheck ==
    /\ pc = "start"
    /\ op' = "describe"
    /\ pc' = "d_resolve"
    /\ UNCHANGED <<resolverVars, argVars, descVars, df, data, mapd_type,
                   has_nulls, nulls, all_nulls, input_cols, err, trace>>

\* lines 150-163.  pandas is importable whenever this module is (line 4
\* imports it), so the ImportError of line 153 cannot be raised.
DescCheck ==
    /\ pc = "start"
    /\ op' = "describe"
    /\ IF ~is_df
       THEN /\ err' = TypeErrorCreate
            /\ pc' = "error"
       ELSE /\ err' = err
            /\ pc' = "d_resolve"
    /\ UNCHANGED <<resolverVars, argVars, descVars, df, data, mapd_type,
                   has_nulls, nulls, all_nulls, input_cols, trace>>

\* line 164: [(col, get_mapd_dtype(data[col])) for col in data.columns]
DescResolve ==
    /\ pc = "d_resolve"
    /\ IF Len(df) < TotalCols
       THEN \E c \in NextColumns :
               LET r == get_mapd_dtype(Series(c.dtype, c.vals)) IN
               /\ df' = Append(df, c)
               /\ IF r.ok
                  THEN /\ dtypes' = Append(dtypes, <<c.name, r.val>>)
                       /\ pc' = pc
                       /\ err' = err
                  ELSE /\ err' = r.val
                       /\ pc' = "error"
                       /\ dtypes' = dtypes
               /\ row_desc' = row_desc
       ELSE \* lines 166-170
            /\ row_desc' = [i \in 1..Len(dtypes) |->
                              [col_name |-> dtypes[i][1],
                               col_type |-> dtypes[i][2]]]
            /\ pc' = "done"
            /\ UNCHANGED <<df, dtypes, err>>
    /\ UNCHANGED <<resolverVars, argVars, op, data, mapd_type, has_nulls,
                   nulls, all_nulls, input_cols, trace>>

Next ==
    \/ EncStart
    \/ EncLoop
    \/ EncResolve
    \/ EncNulls
    \/ EncCast
    \/ EncFill
    \/ EncCoerce
    \/ EncAppend
    \/ DescCheck
    \/ DescResolve

Spec == Init /\ [][Next]_vars

----------------------------------------------------------------------------
\* get_mapd_dtype called on one column, and on two columns side by side

\* kinds of the elements of an object column
ObjectKinds ==
    {"str", "date", "datetime", "time", "int", "bool", "float", "other"}

ObjectCells == {Cell(kd, 1) : kd \in ObjectKinds} \cup {NA}

ObjectSeries(n) == {Series(ObjectDType, f) : f \in SeqsUpTo(ObjectCells, n)}

\* non-object dtypes: bool, (u)int8..64, float16..128, datetime64,
\* timedelta64, complex128
KnownDTypes ==
    {DT("b", 1), DT("i", 1), DT("i", 2), DT("i", 4), DT("i", 8), DT("u", 1),
     DT("u", 2), DT("f", 2), DT("f", 4), DT("f", 8), DT("f", 16), DT("M", 8),
     DT("m", 8), DT("c", 16)}

\* float, datetime64, timedelta64 and complex columns can hold NaN / NaT
KnownCells(dtype) ==
    IF dtype.kind \in {"f", "M", "m", "c"}
    THEN {Cell(dtype.kind, 1), NA}
    ELSE {Cell(dtype.kind, 1)}

KnownSeries(n) ==
    UNION {{Series(dt, f) : f \in SeqsUpTo(KnownCells(dt), n)}
             : dt \in KnownDTypes}

TableIdle ==
    /\ is_df = TRUE
    /\ ncols = 0
    /\ preserve_index = FALSE
    /\ op = "none"
    /\ pc = "idle"
    /\ df = <<>>
    /\ data = Series(ObjectDType, <<>>)
    /\ mapd_type = ""
    /\ has_nulls = FALSE
    /\ nulls = <<>>
    /\ all_nulls = None
    /\ input_cols = <<>>
    /\ dtypes = <<>>
    /\ row_desc = <<>>
    /\ err = ""
    /\ trace = <<>>

tableVars == <<is_df, ncols, preserve_index, op, pc, df, data, mapd_type,
               has_nulls, nulls, all_nulls, input_cols, dtypes, row_desc,
               err, trace>>

InitResolve ==
    /\ TableIdle
    /\ dataA \in ObjectSeries(MaxLen) \cup KnownSeries(MaxLen)
    /\ dataB = Series(ObjectDType, <<>>)
    /\ resA = Raise("")
    /\ resB = Raise("")
    /\ rpc = "call"

\* get_mapd_dtype(dataA)
ResolveCall ==
    /\ rpc = "call"
    /\ resA' = get_mapd_dtype(dataA)
    /\ rpc' = "ret"
    /\ UNCHANGED <<tableVars, dataA, dataB, resB>>

SpecResolve == InitResolve /\ [][ResolveCall]_vars

InitPair ==
    /\ TableIdle
    /\ dataA \in ObjectSeries(MaxPairLen)
    /\ dataB \in ObjectSeries(MaxPairLen)
    /\ resA = Raise("")
    /\ resB = Raise("")
    /\ rpc = "call"

\* get_mapd_dtype(dataA) and get_mapd_dtype(dataB)
ResolvePair ==
    /\ rpc = "call"
    /\ resA' = get_mapd_dtype(dataA)
    /\ resB' = get_mapd_dtype(dataB)
    /\ rpc' = "ret"
    /\ UNCHANGED <<tableVars, dataA, dataB>>

SpecPair == InitPair /\ [][ResolvePair]_vars

----------------------------------------------------------------------------
\* build_input_columnar as a function of the whole table (preserve_index
\* already applied): the loop of lines 87-116 over the columns `cols`

EncodeColumn(d, an, nl) ==
    LET t == get_mapd_dtype(d).val
        n == NullsStep(d, an, nl)
        c == CastStep(d, t).data
        f == FillStep(c, n.has_nulls, t).data
        g == CoerceStep(f, n.has_nulls, t).data
    IN [col |-> TColumn(g, t, n.nulls), all_nulls |-> n.all_nulls,
        nulls |-> n.nulls]

RECURSIVE EncodeFrom(_, _, _, _)
EncodeFrom(cols, an, nl, acc) ==
    IF cols = <<>> THEN acc
    ELSE LET r == EncodeColumn(Series(Head(cols).dtype, Head(cols).vals),
                               an, nl)
         IN EncodeFrom(Tail(cols), r.all_nulls, r.nulls, Append(acc, r.col))

build_input_columnar(cols) == EncodeFrom(cols, None, <<>>, <<>>)

\* build_row_desc as a function of the whole table, lines 164-170
build_row_desc(cols) ==
    [i \in 1..Len(cols) |->
       [col_name |-> cols[i].name,
        col_type |-> get_mapd_dtype(Series(cols[i].dtype, cols[i].vals)).val]]

----------------------------------------------------------------------------
\* Properties

AsSeries(c) == Series(c.dtype, c.vals)
WireType(c) == get_mapd_dtype(AsSeries(c)).val
Normalized(c) == CastStep(AsSeries(c), WireType(c)).data
AllMissing(d) == \A i \in 1..Len(d.vals) : IsNA(d.vals[i])
Emitted == 1..Len(input_cols)

\* the kind of the first non-missing element, "na" if there is none
FirstKind(d) ==
    IF AllMissing(d) THEN "na"
    ELSE LET i == CHOOSE j \in 1..Len(d.vals) :
                    /\ ~IsNA(d.vals[j])
                    /\ \A h \in 1..(j - 1) : IsNA(d.vals[h])
         IN d.vals[i].k

\* the loop head, reached at the end of every iteration, and the return
AtIterationEnd == op = "encode" /\ pc \in {"e_loop", "done"}

\* C1: the null-mask of every encoded column is true exactly at the rows
\* where its own source column holds a missing value (all-false when the
\* column has none), whatever the other columns are.
C1_MaskIsOwnColumns ==
    op = "encode" =>
        \A k \in Emitted : input_cols[k].nulls = isnull(df[k].vals)

\* C2 as claimed: in a column with a missing value, the buffer holds the
\* sentinel at row i if and only if source row i was missing.
C2_SentinelIffMissing ==
    op = "encode" =>
        \A k \in Emitted :
            hasnans(df[k].vals) =>
                \A i \in 1..NumRows :
                    (input_cols[k].values[i] = mapd_to_na(WireType(df[k])))
                        <=> IsNA(df[k].vals[i])

\* C2 amended: in a column with a missing value, every missing row holds
\* the sentinel and every other row holds its (normalized) source value, so
\* a non-missing row holds the sentinel only if its source value is the
\* sentinel value itself.
C2_SentinelAtMissing ==
    AtIterationEnd =>
        \A k \in Emitted :
            hasnans(df[k].vals) =>
                \A i \in 1..NumRows :
                    /\ IsNA(df[k].vals[i]) =>
                         input_cols[k].values[i] = mapd_to_na(WireType(df[k]))
                    /\ ~IsNA(df[k].vals[i]) =>
                         /\ input_cols[k].values[i].v
                              = Normalized(df[k]).vals[i].v
                         /\ (input_cols[k].values[i]
                               = mapd_to_na(WireType(df[k]))
                             => Normalized(df[k]).vals[i].v
                                  = mapd_to_na(WireType(df[k])).v)

C2_Witness ==
    /\ op = "encode" /\ pc = "done"
    /\ \E k \in Emitted :
          /\ IsNA(df[k].vals[1]) /\ ~IsNA(df[k].vals[2])
          /\ WireType(df[k]) = "DATE"
          /\ input_cols[k].values[1] = mapd_to_na("DATE")
          /\ input_cols[k].values[2] = Cell("int", 86400)
    /\ \E k \in Emitted :
          /\ hasnans(df[k].vals)
          /\ \A i \in 1..NumRows :
                input_cols[k].values[i] = mapd_to_na("INT")

\* C3 as claimed: a column all of whose values are missing makes
\* get_mapd_dtype raise the IndexError, whatever its declared type.
C3_AllMissingAnyDType ==
    (rpc = "ret" /\ Len(dataA.vals) > 0 /\ AllMissing(dataA))
        => resA = Raise(IndexErrorNoValid)

\* C3 amended: an object column all of whose values are missing makes
\* get_mapd_dtype raise the IndexError and return no wire type; a column of
\* any other declared type never raises it.
C3_AllMissingObject ==
    (rpc = "ret" /\ AllMissing(dataA)) =>
        IF is_object_dtype(dataA.dtype)
        THEN resA = Raise(IndexErrorNoValid)
        ELSE resA # Raise(IndexErrorNoValid)

C3_Witness ==
    /\ rpc = "ret"
    /\ is_object_dtype(dataA.dtype)
    /\ Len(dataA.vals) >= 2
    /\ AllMissing(dataA)
    /\ resA = Raise(IndexErrorNoValid)

\* C4: in an object column the first non-missing value decides: string ->
\* STR, date-only -> DATE, time-only -> TIME, plain integer -> INT, and any
\* other kind (full datetime, boolean, float, other object) -> TypeError.
C4_SampleKindTable ==
    (rpc = "ret" /\ is_object_dtype(dataA.dtype) /\ ~AllMissing(dataA)) =>
        resA = CASE FirstKind(dataA) = "str" -> Ret("STR")
                 [] FirstKind(dataA) = "date" -> Ret("DATE")
                 [] FirstKind(dataA) = "time" -> Ret("TIME")
                 [] FirstKind(dataA) = "int" -> Ret("INT")
                 [] OTHER -> Raise(TypeErrorUnhandled)

\* C5: two object columns whose first non-missing values are of the same
\* kind resolve alike, whatever the number of leading missing values and the
\* kinds of later elements; a first non-missing string yields STR.
C5_FirstSampleDecides ==
    rpc = "ret" =>
        /\ FirstKind(dataA) = FirstKind(dataB) => resA = resB
        /\ FirstKind(dataA) = "str" => resA = Ret("STR")

C5_Witness ==
    /\ rpc = "ret"
    /\ dataA.vals = <<NA, Cell("str", 1)>>
    /\ dataB.vals = <<Cell("str", 1), Cell("int", 1)>>
    /\ resA = Ret("STR")
    /\ resB = Ret("STR")

\* C6: a column of a non-object declared type resolves by that type alone:
\* bool -> BOOL; integer of 1 byte -> TINYINT, 2 -> SMALLINT, 4 -> INT, more
\* -> BIGINT; float of at most 4 bytes -> FLOAT, more -> DOUBLE; datetime64
\* -> TIMESTAMP; anything else -> TypeError.
C6_KnownDTypeTable ==
    (rpc = "ret" /\ dataA.dtype.kind # "O") =>
        resA = CASE dataA.dtype.kind = "b" -> Ret("BOOL")
                 [] dataA.dtype \in {DT("i", 1), DT("u", 1)} -> Ret("TINYINT")
                 [] dataA.dtype \in {DT("i", 2), DT("u", 2)} -> Ret("SMALLINT")
                 [] dataA.dtype = DT("i", 4) -> Ret("INT")
                 [] dataA.dtype = DT("i", 8) -> Ret("BIGINT")
                 [] dataA.dtype \in {DT("f", 2), DT("f", 4)} -> Ret("FLOAT")
                 [] dataA.dtype \in {DT("f", 8), DT("f", 16)} -> Ret("DOUBLE")
                 [] dataA.dtype.kind = "M" -> Ret("TIMESTAMP")
                 [] OTHER -> Raise(TypeErrorUnhandled)

C6_Witness ==
    /\ rpc = "ret"
    /\ dataA.dtype = DT("f", 4)
    /\ hasnans(dataA.vals)
    /\ resA = Ret("FLOAT")

\* C7 as claimed: build_row_desc on data that is not a DataFrame fails with
\* an ImportError, at once: no index materialized, no column resolved.
C7_NotDataFrameImportError ==
    (op = "describe" /\ ~is_df) =>
        /\ pc = "error" /\ err = ImportErrorPandas
        /\ df = <<>> /\ dtypes = <<>> /\ row_desc = <<>>

\* C7 amended: build_row_desc on data that is not a DataFrame fails with
\* the TypeError "Create table is not supported", at once: no index
\* materialized, no column resolved, so never a resolver error instead.
C7_NotDataFrameTypeError ==
    (op = "describe" /\ ~is_df) =>
        /\ pc = "error" /\ err = TypeErrorCreate
        /\ df = <<>> /\ dtypes = <<>> /\ row_desc = <<>>

C7_Witness ==
    /\ op = "describe" /\ ~is_df /\ preserve_index /\ ncols > 0
    /\ pc = "error" /\ err = TypeErrorCreate

\* C8: with preserve_index the outputs of build_input_columnar and of
\* build_row_desc are the index's element followed by exactly the outputs
\* the table's own columns give without preserve_index, in order; without
\* preserve_index no index column appears.
C8_IndexPrepended ==
    /\ (op = "encode" /\ pc = "done") =>
          IF preserve_index
          THEN /\ Len(input_cols) = ncols + 1
               /\ df[1] = IndexColumn
               /\ input_cols[1] = build_input_columnar(<<IndexColumn>>)[1]
               /\ Tail(input_cols) = build_input_columnar(Tail(df))
          ELSE /\ Len(input_cols) = ncols
               /\ \A k \in 1..Len(df) : df[k].name # "index"
    /\ (op = "describe" /\ pc = "done") =>
          IF preserve_index
          THEN /\ Len(row_desc) = ncols + 1
               /\ row_desc[1] = [col_name |-> "index", col_type |-> "BIGINT"]
               /\ Tail(row_desc) = build_row_desc(Tail(df))
          ELSE /\ Len(row_desc) = ncols
               /\ \A k \in 1..Len(df) : row_desc[k].col_name # "index"

\* C9: the encoder emits one column per table column, in table order, each
\* with buffer length = mask length = N; so at the end of every iteration
\* and at the return.
C9_Shape ==
    AtIterationEnd =>
        /\ \A k \in Emitted :
              /\ Len(input_cols[k].values) = NumRows
              /\ Len(input_cols[k].nulls) = NumRows
              /\ Len(df[k].vals) = NumRows
              /\ input_cols[k].slot = mapd_to_slot(WireType(df[k]))
              /\ \A i \in 1..NumRows :
                    ~IsNA(df[k].vals[i]) =>
                        input_cols[k].values[i].v = Normalized(df[k]).vals[i].v
        /\ Len(input_cols) = Len(df)
        /\ pc = "done" => Len(input_cols) = TotalCols

C9_Witness ==
    /\ op = "encode" /\ pc = "done"
    /\ Len(input_cols) = 3
    /\ ~hasnans(df[1].vals) /\ hasnans(df[2].vals) /\ ~hasnans(df[3].vals)
    /\ input_cols[1].slot = "int_col"
    /\ input_cols[2].slot = "str_col"
    /\ input_cols[3].slot = "int_col"

\* the pandas operations a column of wire type t goes through, in order
StepsFor(t, hn) ==
    <<"get_mapd_dtype">>
    \o (IF hn THEN <<"isnull">> ELSE <<>>)
    \o (IF t \in {"DATE", "TIME", "TIMESTAMP"} THEN <<"thrift_cast">> ELSE <<>>)
    \o (IF hn THEN <<"fillna">> ELSE <<>>)
    \o (IF hn /\ t \notin {"FLOAT", "DOUBLE", "STR"} THEN <<"astype">> ELSE <<>>)

\* C10: each column is resolved, its mask taken from the un-normalized
\* values, normalized (time-like types only), sentinel-filled (only with
\* missing values) and then coerced to int64 (only after a fill, never for
\* FLOAT/DOUBLE/STR), in that order: the sentinel is never normalized and a
\* column without missing values is neither filled nor coerced.
C10_StepOrder ==
    (op = "encode" /\ pc = "e_append") =>
        /\ trace = StepsFor(mapd_type, has_nulls)
        /\ has_nulls = hasnans(df[Len(df)].vals)
        /\ has_nulls => nulls = isnull(df[Len(df)].vals)
        /\ ~has_nulls => data = Normalized(df[Len(df)])
        /\ has_nulls =>
              \A i \in 1..NumRows :
                  IsNA(df[Len(df)].vals[i]) =>
                      data.vals[i] = mapd_to_na(mapd_type)
        /\ mapd_type \in {"FLOAT", "DOUBLE", "STR"} =>
              data.dtype = df[Len(df)].dtype

C10_Witness ==
    /\ op = "encode" /\ pc = "e_append"
    /\ trace = <<"get_mapd_dtype", "isnull", "thrift_cast", "fillna", "astype">>
    /\ mapd_type = "TIME"
    /\ data.vals = <<Cell("int", 60), mapd_to_na("TIME")>>

====
